---- MODULE Spec2Model ----
(***************************************************************************)
(* FlatMapRandomAccessHandler (tensorflow/core/data/flat_map_utils.cc).    *)
(*                                                                         *)
(* The handler is modelled as a state machine.  Its fields keep the names  *)
(* of the source (cumulative_cardinalities_, input_datasets_, ctx_); the   *)
(* locals of a running call are functions of the calling thread.  The      *)
(* collaborators (source dataset, iterator, captured function, variant     *)
(* decoding, mapped datasets) answer nondeterministically at the moment    *)
(* they are called.                                                        *)
(***************************************************************************)
EXTENDS Integers, Sequences, TLC

(***************************************************************************)
(* Bounds of the model.                                                    *)
(***************************************************************************)
MaxSrc == 3          \* elements the source iterator yields at most
NumHandles == 3      \* distinct mapped datasets the map function can return
MaxCalls == 3        \* Cardinality() calls made on one handler
MaxSrcConc == 1      \* MaxSrc, when the callers do not serialize

Threads == {1, 2}
Handles == 1..NumHandles

(***************************************************************************)
(* int64_t.  A value is its two's complement bit pattern, written as four  *)
(* 16-bit limbs, least significant first, so that the 64-bit width of the  *)
(* running sum of ComputeCardinalities is kept exactly.                    *)
(***************************************************************************)
LimbBase == 65536
SignLimb == 32768

Int64 == [1..4 -> 0..(LimbBase - 1)]

I64(l1, l2, l3, l4) == <<l1, l2, l3, l4>>

Small(n) == I64(n, 0, 0, 0)

Zero64 == Small(0)

Int64Max == I64(65535, 65535, 65535, 32767)

\* framework/dataset.h: kInfiniteCardinality = -1, kUnknownCardinality = -2
kInfiniteCardinality == I64(65535, 65535, 65535, 65535)

kUnknownCardinality == I64(65534, 65535, 65535, 65535)

IsNegative(x) == x[4] >= SignLimb

Carry(x, y, k) ==
    LET c1 == (x[1] + y[1]) \div LimbBase
        c2 == (x[2] + y[2] + c1) \div LimbBase
        c3 == (x[3] + y[3] + c2) \div LimbBase
    IN  CASE k = 1 -> 0
          [] k = 2 -> c1
          [] k = 3 -> c2
          [] OTHER -> c3

\* x + y on the 64-bit pattern (what the add instruction leaves)
Add64(x, y) == [k \in 1..4 |-> (x[k] + y[k] + Carry(x, y, k)) % LimbBase]

\* the signed addition x + y leaves the range of int64_t
SignedOverflow(x, y) ==
    /\ IsNegative(x) = IsNegative(y)
    /\ IsNegative(Add64(x, y)) # IsNegative(x)

\* variant: only the INFINITE sentinel is recognised
IsSentinelInfiniteOnly(c) == c = kInfiniteCardinality

IsSentinel(c) == c = kInfiniteCardinality \/ c = kUnknownCardinality

\* what a mapped dataset's Cardinality() can report
CardVals == {Zero64, Small(3), Small(5), Int64Max,
             kInfiniteCardinality, kUnknownCardinality}


(***************************************************************************)
(* absl::Status / absl::StatusOr<T>.                                       *)
(***************************************************************************)
Errors == {"CloneError", "MakeIteratorError", "InstantiateError",
           "GetNextError", "RunError", "InvalidArgument", "DecodeError"}

Ok(x) == [ok |-> TRUE, v |-> x, e |-> "OK"]

Err(msg) == [ok |-> FALSE, v |-> <<>>, e |-> msg]

\* how a Cardinality() call ended, as its caller sees it
Returned(s) == [kind |-> "returned", status |-> s]

Aborted == [kind |-> "aborted", status |-> Err("OK")]

\* what the map function can hand back for one element (mapped_tensors)
MappedTensors ==
    {m \in [size : 0..2, dtype : {"DT_VARIANT", "DT_INT64"}, scalar : BOOLEAN] :
        \/ m.size = 1
        \/ (m.dtype = "DT_VARIANT" /\ m.scalar)}

NoCard == <<>>

VARIABLES
    cumulative_cardinalities_,  \* field: StatusOr<vector<int64_t>>
    input_datasets_,            \* field: vector<DatasetBase*>
    ctx_,                       \* field: TRUE once the IteratorContext exists
    life,                       \* "live", "destroyed" or "aborted" (process)
    callers,                    \* the threads that call Cardinality()
    pc,                         \* where each thread is inside Cardinality()
    input_datasets,             \* local of MakeInputDatasets, per thread
    cumulative_cardinalities,   \* local of ComputeCardinalities, per thread
    ret,                        \* StatusOr a callee handed back, per thread
    card,                       \* what each mapped dataset's Cardinality() is
    refs,                       \* Ref() calls made by the handler, per dataset
    unrefs,                     \* Unref() calls made by the handler, per dataset
    callNo,                     \* which call (1st, 2nd, ...) each thread is in
    log,                        \* collaborator calls made so far
    results                     \* how the Cardinality() calls ended, in order

handlerVars == <<cumulative_cardinalities_, input_datasets_, ctx_, life>>

frameVars == <<pc, input_datasets, cumulative_cardinalities, ret>>

envVars == <<card, refs, unrefs>>

vars == <<cumulative_cardinalities_, input_datasets_, ctx_, life, callers, pc,
          input_datasets, cumulative_cardinalities, ret, card, refs, unrefs,
          callNo, log, results>>

\* calls: Cardinality() calls begun; passes: MakeInputDatasets entries and
\* passIn: the calls they were made in; makeIterator .. decode: collaborator
\* calls; ctxUse: calls handed ctx_.get(); ended: end_of_sequence signals;
\* mapped: the mapped_tensors Run handed back, in order; queried: indices i
\* whose input_datasets_[i]->Cardinality() was called; mkStatus: what each
\* MakeInputDatasets pass returned; decoded: the datasets decoded, in order;
\* overlapped: some call began while another call was in flight
NoLog == [calls |-> 0, passes |-> 0, passIn |-> {}, makeIterator |-> 0,
          instantiate |-> 0, getNext |-> 0, run |-> 0, decode |-> 0,
          ctxUse |-> 0, ended |-> 0, mapped |-> <<>>, queried |-> {},
          mkStatus |-> <<>>, decoded |-> <<>>, overlapped |-> FALSE]

\* a collaborator call that is handed ctx_.get()
CountCtx(field) == [log EXCEPT ![field] = @ + 1, !.ctxUse = @ + 1]

\* MakeInputDatasets returns st (a TF_RETURN_IF_ERROR or a return statement)
MakeReturns(l, st) == [l EXCEPT !.mkStatus = Append(@, st)]

(***************************************************************************)
(* FlatMapRandomAccessHandler::FlatMapRandomAccessHandler (lines 40-64).   *)
(* Init is the state the constructor leaves: Clone() succeeded and ctx_    *)
(* was built, or Clone() failed and its status was stored.                 *)
(***************************************************************************)
\* variant: the failed Clone() status is not stored
ConstructedDropsStatus(cloneOk) ==
    /\ cumulative_cardinalities_ = Ok(<<>>)
    /\ ctx_ = cloneOk
    /\ input_datasets_ = <<>>

Constructed(cloneOk) ==
    /\ cumulative_cardinalities_ = IF cloneOk THEN Ok(<<>>) ELSE Err("CloneError")
    /\ ctx_ = cloneOk
    /\ input_datasets_ = <<>>

InitWith(cs) ==
    /\ \E cloneOk \in BOOLEAN : Constructed(cloneOk)
    /\ life = "live"
    /\ callers = cs
    /\ pc = [t \in Threads |-> "idle"]
    /\ input_datasets = [t \in Threads |-> <<>>]
    /\ cumulative_cardinalities = [t \in Threads |-> <<>>]
    /\ ret = [t \in Threads |-> Ok(<<>>)]
    /\ card = [h \in Handles |-> NoCard]
    /\ refs = [h \in Handles |-> 0]
    /\ unrefs = [h \in Handles |-> 0]
    /\ callNo = [t \in Threads |-> 0]
    /\ log = NoLog
    /\ results = <<>>

Init == InitWith({1})

Idle == \A t \in Threads : pc[t] = "idle"

Last(s) == s[Len(s)]

\* the thread leaves Cardinality(); its frames are gone
Leave(t, r) ==
    /\ pc' = [pc EXCEPT ![t] = "idle"]
    /\ input_datasets' = [input_datasets EXCEPT ![t] = <<>>]
    /\ cumulative_cardinalities' = [cumulative_cardinalities EXCEPT ![t] = <<>>]
    /\ ret' = [ret EXCEPT ![t] = Ok(<<>>)]
    /\ results' = Append(results, r)


(***************************************************************************)
(* FlatMapRandomAccessHandler::Cardinality (lines 73-79), entry:           *)
(*   TF_RETURN_IF_ERROR(cumulative_cardinalities_.status());               *)
(*   if (cumulative_cardinalities_->empty()) { ... ComputeCardinalities()  *)
(*   return cumulative_cardinalities_->back();                             *)
(***************************************************************************)
\* variant: a table whose total is 0 is taken for a missing one
NotYetComputedOrZero(cc) == cc.v = <<>> \/ Last(cc.v) = Zero64

NotYetComputed(cc) == cc.v = <<>>

Cardinality(t) ==
    /\ life = "live"
    /\ t \in callers
    /\ pc[t] = "idle"
    /\ log.calls < MaxCalls
    /\ callNo' = [callNo EXCEPT ![t] = log.calls + 1]
    /\ log' = [log EXCEPT !.calls = @ + 1,
                          !.overlapped = @ \/ \E u \in Threads : pc[u] # "idle"]
    /\ IF ~cumulative_cardinalities_.ok
         THEN Leave(t, Returned(Err(cumulative_cardinalities_.e)))
         ELSE IF NotYetComputed(cumulative_cardinalities_)
                THEN /\ pc' = [pc EXCEPT ![t] = "compute"]
                     /\ UNCHANGED <<input_datasets, cumulative_cardinalities,
                                    ret, results>>
                ELSE Leave(t, Returned(Ok(Last(cumulative_cardinalities_.v))))
    /\ UNCHANGED <<handlerVars, callers, envVars>>

(***************************************************************************)
(* ComputeCardinalities, entry (lines 83-85):                              *)
(*   if (input_datasets_.empty()) { ... MakeInputDatasets() ... }          *)
(***************************************************************************)
ComputeCardinalities(t) ==
    /\ life = "live"
    /\ pc[t] = "compute"
    /\ IF input_datasets_ = <<>>
         THEN /\ pc' = [pc EXCEPT ![t] = "make_iterator"]
              /\ log' = [log EXCEPT !.passes = @ + 1,
                                    !.passIn = @ \cup {callNo[t]}]
         ELSE /\ pc' = [pc EXCEPT ![t] = "walk"]
              /\ UNCHANGED log
    /\ UNCHANGED <<handlerVars, callers, input_datasets,
                   cumulative_cardinalities, ret, envVars, callNo, results>>

(***************************************************************************)
(* MakeInputDatasets (lines 108-146).  An error return leaves the local    *)
(* vector input_datasets behind: its entries were Ref'd and are dropped.   *)
(***************************************************************************)
\* TF_RETURN_IF_ERROR inside MakeInputDatasets: the pass ends with an error
MakeFails(t, msg) ==
    /\ pc' = [pc EXCEPT ![t] = "make_return"]
    /\ ret' = [ret EXCEPT ![t] = Err(msg)]
    /\ input_datasets' = [input_datasets EXCEPT ![t] = <<>>]

\* lines 110-112: input_dataset_->MakeIterator(ctx_.get(), ...)
MakeIterator(t) ==
    /\ life = "live"
    /\ pc[t] = "make_iterator"
    /\ \E ok \in BOOLEAN :
         IF ok
           THEN /\ pc' = [pc EXCEPT ![t] = "instantiate"]
                /\ log' = CountCtx("makeIterator")
                /\ UNCHANGED <<ret, input_datasets>>
           ELSE /\ MakeFails(t, "MakeIteratorError")
                /\ log' = MakeReturns(CountCtx("makeIterator"),
                                      Err("MakeIteratorError"))
    /\ UNCHANGED <<handlerVars, callers, cumulative_cardinalities, envVars,
                   callNo, results>>

\* lines 114-116: captured_map_func_.Instantiate(ctx_.get(), ...)
Instantiate(t) ==
    /\ life = "live"
    /\ pc[t] = "instantiate"
    /\ \E ok \in BOOLEAN :
         IF ok
           THEN /\ pc' = [pc EXCEPT ![t] = "get_next"]
                /\ log' = CountCtx("instantiate")
                /\ UNCHANGED <<ret, input_datasets>>
           ELSE /\ MakeFails(t, "InstantiateError")
                /\ log' = MakeReturns(CountCtx("instantiate"),
                                      Err("InstantiateError"))
    /\ UNCHANGED <<handlerVars, callers, cumulative_cardinalities, envVars,
                   callNo, results>>

\* the longest source: shorter where two passes interleave
SrcBound == IF callers = {1} THEN MaxSrc ELSE MaxSrcConc

\* lines 120-126: iterator->GetNext(ctx_.get(), &input_tensors, &end_of_sequence)
GetNext(t) ==
    /\ life = "live"
    /\ pc[t] = "get_next"
    /\ \E out \in {"error", "end_of_sequence", "element"} :
         CASE out = "error" ->
                /\ MakeFails(t, "GetNextError")
                /\ log' = MakeReturns(CountCtx("getNext"), Err("GetNextError"))
           [] out = "end_of_sequence" ->
                /\ pc' = [pc EXCEPT ![t] = "make_return"]
                /\ ret' = [ret EXCEPT ![t] = Ok(input_datasets[t])]
                /\ input_datasets' = [input_datasets EXCEPT ![t] = <<>>]
                /\ log' = MakeReturns([CountCtx("getNext") EXCEPT !.ended = @ + 1],
                                      Ok(input_datasets[t]))
           [] out = "element" ->
                /\ Len(input_datasets[t]) < SrcBound
                /\ pc' = [pc EXCEPT ![t] = "run"]
                /\ log' = CountCtx("getNext")
                /\ UNCHANGED <<ret, input_datasets>>
    /\ UNCHANGED <<handlerVars, callers, cumulative_cardinalities, envVars,
                   callNo, results>>


\* variant: the rank of the result is not tested
ValidShapeAnyRank(m) == m.size = 1 /\ m.dtype = "DT_VARIANT"

\* lines 131-133: the result must be one scalar of dtype DT_VARIANT
ValidShape(m) == m.size = 1 /\ m.dtype = "DT_VARIANT" /\ m.scalar

\* what a newly decoded dataset can report: fewer values where two passes
\* interleave
CardChoices ==
    IF callers = {1} THEN CardVals ELSE {Small(3), kInfiniteCardinality}

\* the mapped datasets that exist so far
Known == {h \in Handles : card[h] # NoCard}

\* datasets a decode can yield: a known one again, or the next new one
Decodable == {h \in Handles : \A g \in Handles : g < h => g \in Known}

\* variant: the new dataset is put in front of the list
PushFront(v, x) == <<x>> \o v

\* line 143: input_datasets.push_back(mapped_dataset)
PushBack(v, x) == Append(v, x)

\* Run handed back m
Ran(m) == [CountCtx("run") EXCEPT !.mapped = Append(@, m)]

\* lines 128-143: Run, the shape test, GetDatasetFromVariantTensor, Ref, push_back
Run(t) ==
    /\ life = "live"
    /\ pc[t] = "run"
    /\ \/ /\ MakeFails(t, "RunError")
          /\ log' = MakeReturns(CountCtx("run"), Err("RunError"))
          /\ UNCHANGED <<refs, card>>
       \/ \E m \in MappedTensors :
            /\ ~ValidShape(m)
            /\ MakeFails(t, "InvalidArgument")
            /\ log' = MakeReturns(Ran(m), Err("InvalidArgument"))
            /\ UNCHANGED <<refs, card>>
       \/ \E m \in MappedTensors :
            /\ ValidShape(m)
            /\ MakeFails(t, "DecodeError")
            /\ log' = MakeReturns([Ran(m) EXCEPT !.decode = @ + 1],
                                  Err("DecodeError"))
            /\ UNCHANGED <<refs, card>>
       \/ \E m \in MappedTensors, mapped_dataset \in Decodable, c \in CardChoices :
            /\ ValidShape(m)
            /\ card[mapped_dataset] \in {NoCard, c}
            /\ card' = [card EXCEPT ![mapped_dataset] = c]
            /\ refs' = [refs EXCEPT ![mapped_dataset] = @ + 1]
            /\ input_datasets' = [input_datasets EXCEPT
                                    ![t] = PushBack(@, mapped_dataset)]
            /\ pc' = [pc EXCEPT ![t] = "get_next"]
            /\ log' = [Ran(m) EXCEPT !.decode = @ + 1,
                                     !.decoded = Append(@, mapped_dataset)]
            /\ UNCHANGED ret
    /\ UNCHANGED <<handlerVars, callers, cumulative_cardinalities, unrefs,
                   callNo, results>>

\* line 84: TF_ASSIGN_OR_RETURN(input_datasets_, MakeInputDatasets())
AssignInputDatasets(t) ==
    /\ life = "live"
    /\ pc[t] = "make_return"
    /\ IF ret[t].ok
         THEN /\ input_datasets_' = ret[t].v
              /\ pc' = [pc EXCEPT ![t] = "walk"]
              /\ ret' = [ret EXCEPT ![t] = Ok(<<>>)]
         ELSE /\ pc' = [pc EXCEPT ![t] = "assign"]
              /\ UNCHANGED <<input_datasets_, ret>>
    /\ UNCHANGED <<cumulative_cardinalities_, ctx_, life, callers,
                   input_datasets, cumulative_cardinalities, envVars, callNo,
                   log, results>>

(***************************************************************************)
(* ComputeCardinalities, the walk (lines 87-105).  i counts from 0 as in   *)
(* the source; it is the length of the local table while the loop runs.    *)
(***************************************************************************)
\* lines 96-99
CumulativeCardinality(i, input_cardinality, table) ==
    IF i > 0 THEN Add64(input_cardinality, Last(table)) ELSE input_cardinality

\* line 98 overflows int64_t: undefined behaviour
AddOverflows(i, input_cardinality, table) ==
    i > 0 /\ SignedOverflow(input_cardinality, Last(table))

\* variant: an empty list is reported as of unknown cardinality
FinishedUnknown(table) ==
    IF table = <<>> THEN <<kUnknownCardinality>> ELSE table

\* variant: nothing is pushed for an empty list
FinishedEmpty(table) == table

\* lines 102-105
Finished(table) == IF table = <<>> THEN <<Zero64>> ELSE table

\* the process is gone: abort() runs no destructor
Abort(t) ==
    /\ life' = "aborted"
    /\ Leave(t, Aborted)

\* lines 89-101: one iteration of the loop
WalkStep(t) ==
    /\ life = "live"
    /\ pc[t] = "walk"
    /\ LET i == Len(cumulative_cardinalities[t])
           table == cumulative_cardinalities[t]
       IN  /\ i < Len(input_datasets_)
           /\ LET input_cardinality == card[input_datasets_[i + 1]]
               IN
                /\ log' = [log EXCEPT !.queried = @ \cup {i}]
                /\ IF IsSentinel(input_cardinality)
                     THEN /\ ret' = [ret EXCEPT ![t] = Ok(Append(table, input_cardinality))]
                          /\ pc' = [pc EXCEPT ![t] = "assign"]
                          /\ cumulative_cardinalities' =
                               [cumulative_cardinalities EXCEPT ![t] = <<>>]
                          /\ UNCHANGED <<life, input_datasets, results>>
                     ELSE \/ /\ cumulative_cardinalities' =
                                  [cumulative_cardinalities EXCEPT ![t] =
                                     Append(table, CumulativeCardinality(
                                                     i, input_cardinality, table))]
                             /\ UNCHANGED <<life, pc, ret, input_datasets, results>>
                          \/ /\ AddOverflows(i, input_cardinality, table)
                             /\ Abort(t)
    /\ UNCHANGED <<cumulative_cardinalities_, input_datasets_, ctx_, callers,
                   envVars, callNo>>

\* lines 102-105: the loop is over
WalkDone(t) ==
    /\ life = "live"
    /\ pc[t] = "walk"
    /\ Len(cumulative_cardinalities[t]) >= Len(input_datasets_)
    /\ ret' = [ret EXCEPT ![t] = Ok(Finished(cumulative_cardinalities[t]))]
    /\ pc' = [pc EXCEPT ![t] = "assign"]
    /\ cumulative_cardinalities' = [cumulative_cardinalities EXCEPT ![t] = <<>>]
    /\ UNCHANGED <<handlerVars, callers, input_datasets, envVars, callNo, log,
                   results>>

(***************************************************************************)
(* Cardinality, lines 76 and 78: the assignment and                        *)
(*   return cumulative_cardinalities_->back();                             *)
(* operator-> on a StatusOr that holds an error is undefined behaviour     *)
(* (absl: "REQUIRES: this->ok()"): absl's EnsureOk() aborts the process; a *)
(* build without that check reads the unconstructed vector and returns     *)
(* whatever it finds as an OK value.                                       *)
(***************************************************************************)
Garbage == {Zero64, kUnknownCardinality}

Back(cc) ==
    IF cc.ok THEN {Returned(Ok(Last(cc.v)))}
             ELSE {Aborted} \cup {Returned(Ok(g)) : g \in Garbage}

AssignAndReturn(t) ==
    /\ life = "live"
    /\ pc[t] = "assign"
    /\ cumulative_cardinalities_' = ret[t]
    /\ \E r \in Back(ret[t]) :
         /\ Leave(t, r)
         /\ life' = IF r = Aborted THEN "aborted" ELSE life
    /\ UNCHANGED <<input_datasets_, ctx_, callers, envVars, callNo, log>>

(***************************************************************************)
(* ~FlatMapRandomAccessHandler (lines 66-71).                              *)
(***************************************************************************)
\* variant: a dataset held several times is released once
OccurrencesOnce(s, h) == IF \E k \in 1..Len(s) : s[k] = h THEN 1 ELSE 0

\* variant: the loop body runs before the test (one Unref on an empty list)
OccurrencesDoWhile(s, h) ==
    IF s = <<>> THEN (IF h = 1 THEN 1 ELSE 0)
    ELSE Len(SelectSeq(s, LAMBDA x : x = h))

\* how often the loop of the destructor meets dataset h
Occurrences(s, h) == LET RECURSIVE N(_)
                         N(k) == IF k = 0 THEN 0
                                 ELSE N(k - 1) + (IF s[k] = h THEN 1 ELSE 0)
                     IN  N(Len(s))

Destroy ==
    /\ life = "live"
    /\ Idle
    /\ unrefs' = [h \in Handles |-> unrefs[h] + Occurrences(input_datasets_, h)]
    /\ input_datasets_' = <<>>
    /\ life' = "destroyed"
    /\ UNCHANGED <<cumulative_cardinalities_, ctx_, callers, frameVars, card,
                   refs, callNo, log, results>>

Next ==
    \/ \E t \in Threads : Cardinality(t)
    \/ \E t \in Threads : ComputeCardinalities(t)
    \/ \E t \in Threads : MakeIterator(t)
    \/ \E t \in Threads : Instantiate(t)
    \/ \E t \in Threads : GetNext(t)
    \/ \E t \in Threads : Run(t)
    \/ \E t \in Threads : AssignInputDatasets(t)
    \/ \E t \in Threads : WalkStep(t)
    \/ \E t \in Threads : WalkDone(t)
    \/ \E t \in Threads : AssignAndReturn(t)
    \/ Destroy

Spec == Init /\ [][Next]_vars

(***************************************************************************)
(* Progress.  Cardinality() runs on its caller's thread, which keeps       *)
(* executing: a call in flight takes its next step once the collaborator   *)
(* it waits for has returned.  Nothing makes a caller call, or destroy.    *)
(***************************************************************************)
Step(t) ==
    \/ ComputeCardinalities(t)
    \/ MakeIterator(t)
    \/ Instantiate(t)
    \/ GetNext(t)
    \/ Run(t)
    \/ AssignInputDatasets(t)
    \/ WalkStep(t)
    \/ WalkDone(t)
    \/ AssignAndReturn(t)

SpecFair == Spec /\ \A t \in Threads : WF_vars(Step(t))

(***************************************************************************)
(* Callers that do not serialize.  The class holds no mutex: two threads   *)
(* may be inside Cardinality() at once, and each step of one interleaves   *)
(* with the steps of the other.  Both then write the fields without        *)
(* synchronization, a data race (undefined behaviour): besides the         *)
(* interleaved outcomes the process may crash at any step.                 *)
(***************************************************************************)
DataRace(t) ==
    /\ life = "live"
    /\ pc[t] # "idle"
    /\ \E u \in Threads \ {t} : pc[u] # "idle"
    /\ Abort(t)
    /\ UNCHANGED <<cumulative_cardinalities_, input_datasets_, ctx_, callers,
                   envVars, callNo, log>>

InitConc == InitWith(Threads)

NextConc ==
    \/ Next
    \/ \E t \in Threads : DataRace(t)

SpecConc == InitConc /\ [][NextConc]_vars


(***************************************************************************)
(* Vocabulary of the properties below.  These definitions read the state   *)
(* and the log; they are not used by any action.                           *)
(***************************************************************************)
PassStates == {"make_iterator", "instantiate", "get_next", "run"}

\* the (first) MakeInputDatasets pass has returned, and what it returned
PassReturned == log.mkStatus # <<>>

PassStatus == log.mkStatus[1]

PassFailed == PassReturned /\ ~PassStatus.ok

PassSucceeded == PassReturned /\ PassStatus.ok

\* the sub-sequence list a successful pass produced
SubSequences == PassStatus.v

\* the table is computed and stored
Computed == cumulative_cardinalities_.ok /\ cumulative_cardinalities_.v # <<>>

ReportsSentinel(h) ==
    card[h] \in {kInfiniteCardinality, kUnknownCardinality}

AllResults(r) == \A k \in 1..Len(results) : results[k] = r

\* two's complement value of x on five limbs, and the sum no width cuts
Wide(x) == [k \in 1..5 |-> IF k <= 4 THEN x[k]
                           ELSE IF x[4] >= SignLimb THEN LimbBase - 1 ELSE 0]

RECURSIVE WideCarry(_, _, _)
WideCarry(x, y, k) ==
    IF k = 1 THEN 0
    ELSE (x[k - 1] + y[k - 1] + WideCarry(x, y, k - 1)) \div LimbBase

WideAdd(x, y) == [k \in 1..5 |-> (x[k] + y[k] + WideCarry(x, y, k)) % LimbBase]

RECURSIVE ExactSum(_, _)
ExactSum(hs, i) ==
    IF i = 1 THEN Wide(card[hs[1]])
    ELSE WideAdd(ExactSum(hs, i - 1), Wide(card[hs[i]]))

(***************************************************************************)
(* C1.  When the materialization pass fails during the first Cardinality() *)
(* call, that call returns the error to its caller as a value and every    *)
(* later call returns the identical error, the pass not being run again.   *)
(***************************************************************************)
C1_FailedPassReturnedAndMemoized ==
    PassFailed =>
        /\ log.passes = 1
        /\ AllResults(Returned(Err(PassStatus.e)))

(***************************************************************************)
(* C2.  When materialization aborts after j >= 1 handles were acquired     *)
(* with Ref, then after the destructor has run every acquired handle has   *)
(* been released: the Unref calls equal the Ref calls, handle by handle.   *)
(***************************************************************************)
C2_AbortedPassReleasedAtTeardown ==
    (life = "destroyed" /\ PassFailed /\ \E h \in Handles : refs[h] >= 1) =>
        \A h \in Handles : unrefs[h] = refs[h]

(***************************************************************************)
(* C3.  Every one of N >= 1 sequential Cardinality() calls returns, and    *)
(* returns the same value or the same error as the first call.             *)
(***************************************************************************)
C3_EveryCallSameAsFirst ==
    \A k \in 1..Len(results) :
        /\ results[k].kind = "returned"
        /\ results[k] = results[1]

(***************************************************************************)
(* C4.  With calls serialized, the materialization pass runs at most once  *)
(* in the handler's lifetime and only inside the first Cardinality() call: *)
(* the source iterator is opened and the map function instantiated at most *)
(* once, and a thread is inside the pass only during call number 1.  This  *)
(* includes the empty source, whose list stays empty after the pass.       *)
(***************************************************************************)
C4_MaterializedAtMostOnce ==
    /\ log.passes <= 1
    /\ log.passIn \subseteq {1}
    /\ Len(log.mkStatus) <= 1
    /\ log.makeIterator <= 1
    /\ log.instantiate <= 1
    /\ log.ended <= 1
    /\ \A t \in Threads : pc[t] \in PassStates => callNo[t] = 1

C4_Witness ==
    /\ log.mkStatus = <<Ok(<<>>)>>
    /\ input_datasets_ = <<>>
    /\ log.passes = 1
    /\ Len(results) >= 2
    /\ results[2].kind = "returned"

(***************************************************************************)
(* C5.  If some sub-sequence reports INFINITE or UNKNOWN and k is the      *)
(* smallest index of one (counted from 0), the table has exactly k+1       *)
(* entries, its last entry is the sentinel of sub-sequence k, every        *)
(* Cardinality() call returns that sentinel, and no sub-sequence with an   *)
(* index above k is ever asked for its cardinality.                        *)
(***************************************************************************)
FirstSentinel ==
    CHOOSE k \in 1..Len(SubSequences) :
        /\ ReportsSentinel(SubSequences[k])
        /\ \A j \in 1..(k - 1) : ~ReportsSentinel(SubSequences[j])

C5_SentinelShortCircuit ==
    (PassSucceeded /\ \E k \in 1..Len(SubSequences) : ReportsSentinel(SubSequences[k])) =>
        /\ log.queried \subseteq 0..(FirstSentinel - 1)
        /\ Computed =>
             /\ Len(cumulative_cardinalities_.v) = FirstSentinel
             /\ Last(cumulative_cardinalities_.v) = card[SubSequences[FirstSentinel]]
             /\ AllResults(Returned(Ok(card[SubSequences[FirstSentinel]])))

C5_Witness ==
    /\ PassSucceeded
    /\ Len(SubSequences) = 3
    /\ ~ReportsSentinel(SubSequences[1])
    /\ ReportsSentinel(SubSequences[2])
    /\ Computed
    /\ Len(results) >= 1


(***************************************************************************)
(* C6.  If the source yields K >= 1 sub-sequences that all report finite   *)
(* cardinalities c_0..c_{K-1}, the table has K entries, entry i is         *)
(* c_0 + ... + c_i for every i, and Cardinality() returns the total.       *)
(***************************************************************************)
AllFinite == \A k \in 1..Len(SubSequences) : ~ReportsSentinel(SubSequences[k])

C6_FiniteCumulativeSums ==
    (PassSucceeded /\ Len(SubSequences) >= 1 /\ AllFinite /\ Computed) =>
        /\ Len(cumulative_cardinalities_.v) = Len(SubSequences)
        /\ \A i \in 1..Len(cumulative_cardinalities_.v) :
             Wide(cumulative_cardinalities_.v[i]) = ExactSum(SubSequences, i)
        /\ AllResults(Returned(Ok(Last(cumulative_cardinalities_.v))))

(***************************************************************************)
(* C7.  If cloning the function library failed in the constructor, the     *)
(* handler is poisoned: every Cardinality() call returns that construction *)
(* error, and no call opens the source iterator, pulls an element,         *)
(* instantiates or runs the map function, or uses the iterator context,    *)
(* which was never built.                                                  *)
(***************************************************************************)
C7_PoisonedTouchesNothing ==
    ~ctx_ =>
        /\ cumulative_cardinalities_ = Err("CloneError")
        /\ AllResults(Returned(Err("CloneError")))
        /\ log.passes = 0
        /\ log.makeIterator = 0
        /\ log.instantiate = 0
        /\ log.getNext = 0
        /\ log.run = 0
        /\ log.ctxUse = 0
        /\ Idle

C7_Witness == ~ctx_ /\ Len(results) >= 2

(***************************************************************************)
(* C8.  For a source of length K that materializes successfully the        *)
(* handler makes exactly K Ref calls, one per entry of the sub-sequence    *)
(* list (a dataset that occurs twice is counted twice), no Unref before    *)
(* teardown, and at teardown exactly one Unref per entry of the list.      *)
(***************************************************************************)
EntriesOf(h) == Len(SelectSeq(SubSequences, LAMBDA x : x = h))

C8_RefsMatchUnrefs ==
    PassSucceeded =>
        \A h \in Handles :
            /\ refs[h] = EntriesOf(h)
            /\ unrefs[h] = IF life = "destroyed" THEN EntriesOf(h) ELSE 0

C8_Witness ==
    /\ PassSucceeded
    /\ Len(SubSequences) = 3
    /\ SubSequences[1] = SubSequences[3]
    /\ SubSequences[1] # SubSequences[2]
    /\ life = "destroyed"

(***************************************************************************)
(* C9.  If the map function's result for an element is not exactly one     *)
(* value, or not of dtype DT_VARIANT, or not a scalar, the pass returns    *)
(* InvalidArgument at once: that Run is the last one, no further element   *)
(* is pulled, nothing is decoded for the element, and the handler's        *)
(* sub-sequence list stays empty.                                          *)
(***************************************************************************)
BadShape(m) == m.size # 1 \/ m.dtype # "DT_VARIANT" \/ ~m.scalar

C9_InvalidShapeAbortsAtOnce ==
    \A j \in 1..Len(log.mapped) :
        BadShape(log.mapped[j]) =>
            /\ j = Len(log.mapped)
            /\ log.run = j
            /\ log.getNext = j
            /\ log.decode = j - 1
            /\ log.mkStatus = <<Err("InvalidArgument")>>
            /\ input_datasets_ = <<>>
            /\ \A t \in Threads : pc[t] \notin PassStates

C9_Witness ==
    /\ Len(log.mapped) = 2
    /\ log.mapped[2] = [size |-> 1, dtype |-> "DT_VARIANT", scalar |-> FALSE]
    /\ log.mkStatus = <<Err("InvalidArgument")>>
    /\ Idle

(***************************************************************************)
(* C10.  If the source has no element, the sub-sequence list is empty,     *)
(* the table is [0] and Cardinality() returns 0.                           *)
(***************************************************************************)
C10_EmptySource ==
    (PassSucceeded /\ SubSequences = <<>>) =>
        /\ input_datasets_ = <<>>
        /\ Len(results) >= 1 =>
             /\ cumulative_cardinalities_ = Ok(<<Zero64>>)
             /\ AllResults(Returned(Ok(Zero64)))

C10_Witness ==
    /\ PassSucceeded
    /\ SubSequences = <<>>
    /\ log.getNext = 1
    /\ Len(results) = 1
    /\ life = "live"


(***************************************************************************)
(* C11.  Over serialized Cardinality() calls the cached state is           *)
(* monotonic: it changes at most once, from not-yet-computed to failed or  *)
(* computed, in the first call (the one that enters the computation), and  *)
(* once failed or computed its content never changes again.                *)
(***************************************************************************)
NotYetComputedState ==
    cumulative_cardinalities_.ok /\ cumulative_cardinalities_.v = <<>>

C11_CachedStateMonotonic ==
    [][cumulative_cardinalities_' # cumulative_cardinalities_ =>
          /\ NotYetComputedState
          /\ ~NotYetComputedState'
          /\ \E t \in Threads : pc[t] = "assign" /\ callNo[t] = 1]_vars

C11_Witness ==
    /\ Computed
    /\ Len(cumulative_cardinalities_.v) >= 2
    /\ Len(results) = 3
    /\ life = "live"


(***************************************************************************)
(* C12.  As claimed: every computed table has the length of the            *)
(* sub-sequence list, or length 1 holding a sentinel, or length 1 holding  *)
(* 0 when the source was empty; no other length occurs.                    *)
(***************************************************************************)
SentinelValue(x) == x \in {kInfiniteCardinality, kUnknownCardinality}

C12_LengthListOrOne ==
    (PassSucceeded /\ Computed) =>
        \/ Len(cumulative_cardinalities_.v) = Len(SubSequences)
        \/ /\ Len(cumulative_cardinalities_.v) = 1
           /\ SentinelValue(cumulative_cardinalities_.v[1])
        \/ /\ Len(cumulative_cardinalities_.v) = 1
           /\ cumulative_cardinalities_.v[1] = Zero64
           /\ SubSequences = <<>>

(***************************************************************************)
(* C12, amended.  Every computed table has the length of the sub-sequence  *)
(* list when no sub-sequence reports a sentinel, or length k+1 ending in   *)
(* the sentinel of the first sub-sequence k (from 0) that reports one, or  *)
(* is [0] when the source was empty; no other length occurs.               *)
(***************************************************************************)
SomeSentinel == \E k \in 1..Len(SubSequences) : ReportsSentinel(SubSequences[k])

C12_LengthListOrTruncated ==
    (PassSucceeded /\ Computed) =>
        CASE SubSequences = <<>> -> cumulative_cardinalities_.v = <<Zero64>>
          [] SomeSentinel ->
               /\ Len(cumulative_cardinalities_.v) = FirstSentinel
               /\ SentinelValue(Last(cumulative_cardinalities_.v))
          [] OTHER -> Len(cumulative_cardinalities_.v) = Len(SubSequences)

C12_Witness ==
    /\ PassSucceeded
    /\ Computed
    /\ Len(SubSequences) = 3
    /\ Len(cumulative_cardinalities_.v) = 2
    /\ SentinelValue(cumulative_cardinalities_.v[2])
    /\ ~SentinelValue(cumulative_cardinalities_.v[1])

(***************************************************************************)
(* C13.  Every value Cardinality() returns successfully is a finite        *)
(* non-negative integer or one of the sentinels INFINITE / UNKNOWN, the    *)
(* sub-sequence cardinalities being non-negative 64-bit integers or        *)
(* sentinels and the running sum a 64-bit signed addition.                 *)
(***************************************************************************)
C13_ReturnedValueInRange ==
    \A k \in 1..Len(results) :
        (results[k].kind = "returned" /\ results[k].status.ok) =>
            \/ results[k].status.v[4] < SignLimb
            \/ SentinelValue(results[k].status.v)


(***************************************************************************)
(* C14.  The handler does not guard the step from fresh to cached: when    *)
(* two Cardinality() calls overlap on a fresh handler both can pass the    *)
(* not-yet-computed test and both run the materialization pass.  A second  *)
(* pass happens only when calls overlapped, so running the pass at most    *)
(* once rests on the callers serializing.                                  *)
(***************************************************************************)
C14_SecondPassOnlyByOverlap ==
    /\ log.passes >= 2 => log.overlapped
    /\ ~log.overlapped => C4_MaterializedAtMostOnce

\* two passes in flight
C14_Witness ==
    /\ pc[1] \in PassStates
    /\ pc[2] \in PassStates
    /\ log.passes = 2
    /\ NotYetComputedState


(***************************************************************************)
(* C15.  After a successful materialization of a source of length K the    *)
(* sub-sequence list has exactly K entries, entry i being the dataset      *)
(* decoded from the map function's result on the i-th element pulled; the  *)
(* map function is run exactly once per pulled element, in pull order      *)
(* (each Run follows its GetNext), and never after end-of-sequence.        *)
(***************************************************************************)
\* elements pulled: the GetNext calls but the one that signalled the end
Pulled == log.getNext - log.ended

C15_ListFollowsPullOrder ==
    /\ log.run <= log.getNext
    /\ log.getNext <= log.run + 1
    /\ \A t \in Threads : pc[t] = "run" => log.getNext = log.run + 1
    /\ log.ended >= 1 => log.run = Pulled
    /\ PassSucceeded =>
         /\ log.ended = 1
         /\ Len(SubSequences) = Pulled
         /\ SubSequences = log.decoded
         /\ log.run = Pulled
         /\ Len(log.mapped) = Pulled
         /\ (life = "live" /\ \A t \in Threads : pc[t] # "make_return") =>
                input_datasets_ = SubSequences

C15_Witness ==
    /\ PassSucceeded
    /\ Len(SubSequences) = 3
    /\ SubSequences[1] # SubSequences[2]
    /\ input_datasets_ = SubSequences
    /\ log.run = 3
    /\ log.getNext = 4


(***************************************************************************)
(* C16.  Cardinality() is a blocking call that eventually returns whenever *)
(* the source is finite and every collaborator call returns; and it        *)
(* returns only after the pass has reached end-of-sequence or an error,    *)
(* or from the memoized result.                                            *)
(***************************************************************************)
C16_EventuallyReturns ==
    /\ \A t \in Threads :
         (pc[t] # "idle") ~> (pc[t] = "idle" /\ life # "aborted")
    /\ []((ctx_ /\ Len(results) >= 1) => PassReturned)


(***************************************************************************)
(* C17.  Teardown of a handler on which materialization never ran (fresh   *)
(* with no Cardinality() call, or poisoned) makes no Unref call and leaves *)
(* the sub-sequence list empty.                                            *)
(***************************************************************************)
C17_TeardownWithoutPass ==
    (life = "destroyed" /\ log.passes = 0) =>
        /\ \A h \in Handles : unrefs[h] = 0
        /\ input_datasets_ = <<>>

\* a poisoned handler, called twice, then destroyed
C17_Witness ==
    /\ life = "destroyed"
    /\ log.passes = 0
    /\ ~ctx_
    /\ Len(results) = 2

(***************************************************************************)
(* C18.  A successfully computed table is never empty, whatever the        *)
(* sub-sequence list (the empty one included): the emptiness test that     *)
(* stands for not-yet-computed is false once a table was stored, and       *)
(* Cardinality() never takes the last entry of an empty table.             *)
(***************************************************************************)
C18_ComputedTableNotEmpty ==
    /\ \A t \in Threads :
         (pc[t] = "assign" /\ ret[t].ok) => ret[t].v # <<>>
    /\ (cumulative_cardinalities_.ok
          /\ \E k \in 1..Len(results) : results[k].kind = "returned") =>
         cumulative_cardinalities_.v # <<>>

C18_Witness ==
    /\ PassSucceeded
    /\ SubSequences = <<>>
    /\ cumulative_cardinalities_.ok
    /\ cumulative_cardinalities_.v # <<>>
    /\ Len(results) = 2


(***************************************************************************)
(* C19.  In every computed table a sentinel (INFINITE / UNKNOWN) occurs    *)
(* only as the last entry, and the other entries are finite, non-negative  *)
(* and non-decreasing in index order, for sub-sequence cardinalities that  *)
(* are each a non-negative int64_t or a sentinel.                          *)
(***************************************************************************)
\* x <= y, for non-negative x and y
LessEq(x, y) ==
    \/ x = y
    \/ \E k \in 1..4 : x[k] < y[k] /\ \A j \in (k + 1)..4 : x[j] = y[j]

====
